---- MODULE Spec2Model ----
(***************************************************************************)
(* The NFS source module of anaconda                                       *)
(* (pyanaconda/modules/payloads/source/nfs/nfs.py): the stored URL and its *)
(* change signal, the kickstart import/export, the state derived from the  *)
(* mount probe, and the set-up / tear-down tasks the module hands out.     *)
(*                                                                         *)
(* Strings are sequences of one-character strings, so that composing and   *)
(* splitting an NFS URL is computed and not assumed.                       *)
(***************************************************************************)
EXTENDS Integers, Sequences, FiniteSets, TLC

VARIABLES
    _url,           \* NFSSourceModule._url
    url_changed,    \* number of emissions of the url_changed signal
    set_calls,      \* number of invocations of set_url
    last_arg,       \* the value the last invocation of set_url was given
    observed,       \* the URL a handler of url_changed read at the last emission
    raised,         \* exception raised by the last configuration call, or NoError
    data,           \* the kickstart data record (data.nfs) held by the caller
    imported,       \* the record of the last import still in force, or NoRecord
    exported,       \* TRUE while data holds the export of the current URL
    _mount_point,   \* MountingSourceMixin._mount_point
    mounts,         \* the paths that are mounted right now (what the probe reads)
    tasks,          \* every task created so far, in creation order
    factory_calls   \* number of set_up_with_tasks / tear_down_with_tasks calls

vars == <<_url, url_changed, set_calls, last_arg, observed, raised, data,
          imported, exported, _mount_point, mounts, tasks, factory_calls>>

config_vars == <<_url, url_changed, set_calls, last_arg, observed, raised, data,
                 imported, exported>>
mount_vars == <<_mount_point, mounts, tasks, factory_calls>>

----------------------------------------------------------------------------
(* Bounds *)

MaxLen == 1         \* longest server / directory / option string drawn
MaxCalls == 2       \* set_url invocations followed
MaxTasks == 2       \* tasks created

----------------------------------------------------------------------------
(* Strings *)

Chars == {"a", ":"}

Colon == ":"

StrUpTo(n) == UNION {[1..k -> Chars] : k \in 0..n}

HasColon(s) == \E i \in 1..Len(s) : s[i] = Colon

StartsWith(s, p) == Len(s) >= Len(p) /\ SubSeq(s, 1, Len(p)) = p

\* str.split(":"): the fields between the separators, empty ones included.
RECURSIVE Split(_)
Split(s) ==
    IF ~HasColon(s) THEN <<s>>
    ELSE LET i == CHOOSE j \in 1..Len(s) :
                    s[j] = Colon /\ \A k \in 1..(j - 1) : s[k] # Colon
         IN  <<SubSeq(s, 1, i - 1)>> \o Split(SubSeq(s, i + 1, Len(s)))

----------------------------------------------------------------------------
(* Errors and results *)

NoError == "none"
InvalidConfigurationError == "InvalidConfigurationError"

Ok(v) == [ok |-> TRUE, val |-> v]
Err == [ok |-> FALSE, val |-> <<>>]

----------------------------------------------------------------------------
(* The composite address: nfs:<server>:<path>:<options> *)

NfsPrefix == <<"n", "f", "s", ":">>

\* pyanaconda.core.payload.create_nfs_url(host, path, options)
create_nfs_url(host, path, options) ==
    IF host = <<>> \/ HasColon(host) \/ HasColon(path) \/ HasColon(options)
    THEN Err
    ELSE Ok(NfsPrefix \o host \o <<Colon>> \o path \o <<Colon>> \o options)

\* pyanaconda.core.payload.parse_nfs_url(url): the tuple (options, host, path)
parse_nfs_url(u) ==
    IF ~StartsWith(u, NfsPrefix) THEN Err
    ELSE LET f == Split(SubSeq(u, Len(NfsPrefix) + 1, Len(u)))
         IN  IF Len(f) = 3 /\ f[1] # <<>>
             THEN Ok(<<f[3], f[1], f[2]>>)
             ELSE Err

WellFormed(u) == parse_nfs_url(u).ok

----------------------------------------------------------------------------
(* Properties of the module *)

\* NFSSourceModule.url
url == _url

DescriptionPrefix == <<"N", "F", "S", " ", "s", "e", "r", "v", "e", "r", " ">>

\* NFSSourceModule.description
description == DescriptionPrefix \o url

\* NFSSourceModule.type
type == "NFS"

\* network_required answering as a source on local media would
network_required_local == FALSE

\* NFSSourceModule.network_required
network_required == TRUE

----------------------------------------------------------------------------
(* The kickstart record and the inputs drawn *)

NoRecord == [server |-> <<>>, dir |-> <<>>, opts |-> <<>>, seen |-> FALSE,
             lineno |-> -1]

RecordsOver(servers, dirs, options, linenos) ==
    [server : servers, dir : dirs, opts : options, seen : BOOLEAN,
     lineno : linenos]

\* every record whose three strings are at most MaxLen long
AllRecords == RecordsOver(StrUpTo(MaxLen), StrUpTo(MaxLen), StrUpTo(MaxLen), {0})

\* the records the lifecycle specification draws
SampleRecords ==
    { [server |-> <<"a">>, dir |-> <<"a", "a">>, opts |-> <<"a">>,
       seen |-> FALSE, lineno |-> 1],
      [server |-> <<>>, dir |-> <<"a", "a">>, opts |-> <<>>,
       seen |-> TRUE, lineno |-> 0] }

\* the values the lifecycle specification passes to set_url
UrlInputs ==
    { NfsPrefix \o <<"a", ":", "a", "a", ":", "a">>,
      NfsPrefix \o <<"a">> }

----------------------------------------------------------------------------
(* Configuration *)

\* set_url emitting the signal before it assigns
set_url_emit_first(u) ==
    /\ url_changed' = url_changed + 1
    /\ observed' = _url
    /\ _url' = u
    /\ set_calls' = set_calls + 1
    /\ last_arg' = u
    /\ raised' = NoError

\* set_url emitting only when the value differs from the stored one
set_url_if_changed(u) ==
    /\ _url' = u
    /\ IF u # _url
       THEN url_changed' = url_changed + 1 /\ observed' = _url'
       ELSE UNCHANGED <<url_changed, observed>>
    /\ set_calls' = set_calls + 1
    /\ last_arg' = u
    /\ raised' = NoError

\* set_url keeping the stored value where the new one is empty
set_url_merging(u) ==
    /\ _url' = IF u = <<>> THEN _url ELSE u
    /\ url_changed' = url_changed + 1
    /\ observed' = _url'
    /\ set_calls' = set_calls + 1
    /\ last_arg' = u
    /\ raised' = NoError

\* set_url forgetting to emit the signal
set_url_silent(u) ==
    /\ _url' = u
    /\ UNCHANGED <<url_changed, observed>>
    /\ set_calls' = set_calls + 1
    /\ last_arg' = u
    /\ raised' = NoError

\* set_url refusing a value that does not parse
set_url_validating(u) ==
    /\ set_calls' = set_calls + 1
    /\ last_arg' = u
    /\ IF WellFormed(u)
       THEN /\ _url' = u
            /\ url_changed' = url_changed + 1
            /\ observed' = _url'
            /\ raised' = NoError
       ELSE /\ raised' = InvalidConfigurationError
            /\ UNCHANGED <<_url, url_changed, observed>>

\* NFSSourceModule.set_url(url): the assignment, then the emission, whose
\* handlers run before emit() returns and read the URL as it is by then
set_url(u) ==
    /\ _url' = u
    /\ url_changed' = url_changed + 1
    /\ observed' = _url'
    /\ set_calls' = set_calls + 1
    /\ last_arg' = u
    /\ raised' = NoError

\* process_kickstart storing the empty URL when the record does not compose
process_kickstart_clearing(d) ==
    LET nfs_url == create_nfs_url(d.server, d.dir, d.opts)
    IN  /\ set_url(nfs_url.val)
        /\ imported' = IF nfs_url.ok THEN d ELSE NoRecord

\* NFSSourceModule.process_kickstart(data)
process_kickstart(d) ==
    LET nfs_url == create_nfs_url(d.server, d.dir, d.opts)
    IN  IF nfs_url.ok
        THEN /\ set_url(nfs_url.val)
             /\ imported' = d
        ELSE /\ raised' = InvalidConfigurationError
             /\ UNCHANGED <<_url, url_changed, set_calls, last_arg, observed,
                            imported>>

\* setup_kickstart unpacking the tuple as (host, path, opts)
setup_kickstart_host_first(d) ==
    LET parsed == parse_nfs_url(url)
    IN  IF parsed.ok
        THEN LET host == parsed.val[1]
                 path == parsed.val[2]
                 opts == parsed.val[3]
             IN  /\ data' = [d EXCEPT !.server = host, !.dir = path,
                                      !.opts = opts, !.seen = TRUE]
                 /\ raised' = NoError
        ELSE /\ raised' = InvalidConfigurationError
             /\ data' = d

\* setup_kickstart writing the options into the directory and back
setup_kickstart_swapped(d) ==
    LET parsed == parse_nfs_url(url)
    IN  IF parsed.ok
        THEN LET opts == parsed.val[1]
                 host == parsed.val[2]
                 path == parsed.val[3]
             IN  /\ data' = [d EXCEPT !.server = host, !.dir = opts,
                                      !.opts = path, !.seen = TRUE]
                 /\ raised' = NoError
        ELSE /\ raised' = InvalidConfigurationError
             /\ data' = d

\* setup_kickstart filling a new record instead of the one it is given
setup_kickstart_new_record(d) ==
    LET parsed == parse_nfs_url(url)
    IN  IF parsed.ok
        THEN LET opts == parsed.val[1]
                 host == parsed.val[2]
                 path == parsed.val[3]
             IN  /\ data' = [server |-> host, dir |-> path, opts |-> opts,
                             seen |-> TRUE, lineno |-> 0]
                 /\ raised' = NoError
        ELSE /\ raised' = InvalidConfigurationError
             /\ data' = d

\* NFSSourceModule.setup_kickstart(data)
setup_kickstart(d) ==
    LET parsed == parse_nfs_url(url)
    IN  IF parsed.ok
        THEN LET opts == parsed.val[1]
                 host == parsed.val[2]
                 path == parsed.val[3]
             IN  /\ data' = [d EXCEPT !.server = host, !.dir = path,
                                      !.opts = opts, !.seen = TRUE]
                 /\ raised' = NoError
        ELSE /\ raised' = InvalidConfigurationError
             /\ data' = d

----------------------------------------------------------------------------
(* Actions: configuration *)

\* a caller sets the URL
SetUrl(inputs) ==
    /\ set_calls < MaxCalls
    /\ \E u \in inputs : set_url(u)
    /\ imported' = NoRecord
    /\ exported' = FALSE
    /\ UNCHANGED <<data, mount_vars>>

\* a caller imports its kickstart record
ProcessKickstart ==
    /\ create_nfs_url(data.server, data.dir, data.opts).ok => set_calls < MaxCalls
    /\ process_kickstart(data)
    /\ exported' = (exported /\ _url' = _url)
    /\ UNCHANGED <<data, mount_vars>>

\* a caller exports into its kickstart record
SetupKickstart ==
    /\ setup_kickstart(data)
    /\ exported' = (raised' = NoError)
    /\ UNCHANGED <<_url, url_changed, set_calls, last_arg, observed, imported,
                   mount_vars>>

\* the caller takes up another kickstart record
NewRecord(records) ==
    /\ \E r \in records : data' = r
    /\ exported' = FALSE
    /\ UNCHANGED <<_url, url_changed, set_calls, last_arg, observed, raised,
                   imported, mount_vars>>

----------------------------------------------------------------------------
(* Mount point, probe and state *)

\* the path generated for this source
MountPoint == "/mnt/a"

\* MountingSourceMixin.mount_point
mount_point == _mount_point

\* MountingSourceMixin.get_mount_state(): the probe of the mount point
get_mount_state == _mount_point \in mounts

\* SourceState.from_bool(value)
from_bool(value) == IF value THEN "READY" ELSE "UNAVAILABLE"

\* get_state answering from a flag kept since the first successful set-up
get_state_cached ==
    from_bool(\E i \in 1..Len(tasks) :
                  /\ tasks[i].kind = "SetUpNFSSourceTask"
                  /\ tasks[i].outcome = "success")

\* get_state answering READY once a set-up task has run, whatever its outcome
get_state_attempted ==
    from_bool(\/ get_mount_state
              \/ \E i \in 1..Len(tasks) :
                     /\ tasks[i].kind = "SetUpNFSSourceTask"
                     /\ tasks[i].outcome = "MountFailure")

\* get_state answering READY only for a mounted source that has a URL
get_state_configured == from_bool(get_mount_state /\ _url # <<>>)

\* NFSSourceModule.get_state()
get_state == from_bool(get_mount_state)

\* RepoConfigurationData.from_directory(directory_path)
from_directory(directory_path) == [directory |-> directory_path]

\* NFSSourceModule.generate_repo_configuration()
generate_repo_configuration == from_directory(mount_point)

----------------------------------------------------------------------------
(* Tasks *)

\* SetUpNFSSourceTask(target_mount, url)
SetUpNFSSourceTask(target_mount, u) ==
    [kind |-> "SetUpNFSSourceTask", target |-> target_mount, url |-> u]

\* TearDownMountTask(target_mount)
TearDownMountTask(target_mount) ==
    [kind |-> "TearDownMountTask", target |-> target_mount, url |-> <<>>]

\* set_up_with_tasks handing out two tasks
set_up_with_tasks_twice ==
    <<SetUpNFSSourceTask(mount_point, _url), SetUpNFSSourceTask(mount_point, _url)>>

\* set_up_with_tasks naming another mount point
set_up_with_tasks_elsewhere == <<SetUpNFSSourceTask("/mnt/b", _url)>>

\* set_up_with_tasks handing the task no URL
set_up_with_tasks_blank == <<SetUpNFSSourceTask(mount_point, <<>>)>>

\* NFSSourceModule.set_up_with_tasks()
set_up_with_tasks == <<SetUpNFSSourceTask(mount_point, _url)>>

\* tear_down_with_tasks building the task of set_up_with_tasks
tear_down_with_tasks_mounting ==
    LET task == SetUpNFSSourceTask(_mount_point, _url)
    IN  <<task>>

\* tear_down_with_tasks handing out nothing while nothing is mounted
tear_down_with_tasks_when_mounted ==
    LET task == TearDownMountTask(_mount_point)
    IN  IF get_mount_state THEN <<task>> ELSE <<>>

\* tear_down_with_tasks naming another mount point
tear_down_with_tasks_elsewhere ==
    LET task == TearDownMountTask("/mnt/b")
    IN  <<task>>

\* NFSSourceModule.tear_down_with_tasks()
tear_down_with_tasks ==
    LET task == TearDownMountTask(_mount_point)
    IN  <<task>>

\* a task as the executor holds it: where it came from and how far it got
Held(task, origin) ==
    [kind |-> task.kind, target |-> task.target, url |-> task.url,
     origin |-> origin, status |-> "created", outcome |-> "none"]

HeldAll(list, origin) == [i \in 1..Len(list) |-> Held(list[i], origin)]

Finished(i, outcome) ==
    tasks' = [tasks EXCEPT ![i].status = "done", ![i].outcome = outcome]

----------------------------------------------------------------------------
(* Actions: tasks and mounts *)

\* a caller asks for the set-up tasks
SetUpWithTasks ==
    /\ Len(tasks) < MaxTasks
    /\ tasks' = tasks \o HeldAll(set_up_with_tasks, "set_up_with_tasks")
    /\ factory_calls' = factory_calls + 1
    /\ UNCHANGED <<config_vars, _mount_point, mounts>>

\* a caller asks for the tear-down tasks
TearDownWithTasks ==
    /\ Len(tasks) < MaxTasks
    /\ tasks' = tasks \o HeldAll(tear_down_with_tasks, "tear_down_with_tasks")
    /\ factory_calls' = factory_calls + 1
    /\ UNCHANGED <<config_vars, _mount_point, mounts>>

\* the executor starts a task it holds
StartTask(i) ==
    /\ tasks[i].status = "created"
    /\ tasks' = [tasks EXCEPT ![i].status = "running"]
    /\ UNCHANGED <<config_vars, _mount_point, mounts, factory_calls>>

\* SetUpNFSSourceTask.run() mounts the address at the target
SetUpSucceeds(i) ==
    /\ tasks[i].status = "running"
    /\ tasks[i].kind = "SetUpNFSSourceTask"
    /\ WellFormed(tasks[i].url)
    /\ mounts' = mounts \cup {tasks[i].target}
    /\ Finished(i, "success")
    /\ UNCHANGED <<config_vars, _mount_point, factory_calls>>

\* SetUpNFSSourceTask.run() fails to mount
SetUpFails(i) ==
    /\ tasks[i].status = "running"
    /\ tasks[i].kind = "SetUpNFSSourceTask"
    /\ Finished(i, "MountFailure")
    /\ UNCHANGED <<config_vars, _mount_point, mounts, factory_calls>>

\* TearDownMountTask.run() unmounts the target, or finds nothing mounted
TearDownSucceeds(i) ==
    /\ tasks[i].status = "running"
    /\ tasks[i].kind = "TearDownMountTask"
    /\ mounts' = mounts \ {tasks[i].target}
    /\ Finished(i, "success")
    /\ UNCHANGED <<config_vars, _mount_point, factory_calls>>

\* TearDownMountTask.run() fails to unmount a mounted target
TearDownFails(i) ==
    /\ tasks[i].status = "running"
    /\ tasks[i].kind = "TearDownMountTask"
    /\ tasks[i].target \in mounts
    /\ Finished(i, "UnmountFailure")
    /\ UNCHANGED <<config_vars, _mount_point, mounts, factory_calls>>

\* the executor cancels a running task: its mount or unmount happened or not
CancelTask(i) ==
    /\ tasks[i].status = "running"
    /\ \/ UNCHANGED mounts
       \/ /\ tasks[i].kind = "SetUpNFSSourceTask"
          /\ WellFormed(tasks[i].url)
          /\ mounts' = mounts \cup {tasks[i].target}
       \/ /\ tasks[i].kind = "TearDownMountTask"
          /\ mounts' = mounts \ {tasks[i].target}
    /\ Finished(i, "cancelled")
    /\ UNCHANGED <<config_vars, _mount_point, factory_calls>>

\* somebody else mounts or unmounts the mount point
ExternalMountChange ==
    /\ mounts' = IF MountPoint \in mounts THEN mounts \ {MountPoint}
                  ELSE mounts \cup {MountPoint}
    /\ UNCHANGED <<config_vars, _mount_point, tasks, factory_calls>>

----------------------------------------------------------------------------
(* Specifications *)

\* NFSSourceModule.__init__()
Init ==
    /\ _url = <<>>
    /\ url_changed = 0
    /\ set_calls = 0
    /\ last_arg = <<>>
    /\ observed = <<>>
    /\ raised = NoError
    /\ data \in SampleRecords
    /\ imported = NoRecord
    /\ exported = FALSE
    /\ _mount_point = MountPoint
    /\ mounts = {}
    /\ tasks = <<>>
    /\ factory_calls = 0

Next ==
    \/ SetUrl(UrlInputs)
    \/ ProcessKickstart
    \/ SetupKickstart
    \/ NewRecord(SampleRecords)
    \/ SetUpWithTasks
    \/ TearDownWithTasks
    \/ \E i \in 1..Len(tasks) : StartTask(i)
    \/ \E i \in 1..Len(tasks) : SetUpSucceeds(i)
    \/ \E i \in 1..Len(tasks) : SetUpFails(i)
    \/ \E i \in 1..Len(tasks) : TearDownSucceeds(i)
    \/ \E i \in 1..Len(tasks) : TearDownFails(i)
    \/ \E i \in 1..Len(tasks) : CancelTask(i)
    \/ ExternalMountChange

\* the whole life of one source
Spec == Init /\ [][Next]_vars

\* every well-formed address with a short enough body, the empty address
\* and the bare scheme
AllUrls ==
    {u \in {NfsPrefix \o b : b \in StrUpTo(MaxLen + 3)} : WellFormed(u)}
        \cup {<<>>, NfsPrefix}

\* a source as constructed, and a caller holding any record
InitProfile ==
    /\ _url = <<>>
    /\ url_changed = 0
    /\ set_calls = 0
    /\ last_arg = <<>>
    /\ observed = <<>>
    /\ raised = NoError
    /\ data \in AllRecords
    /\ imported = NoRecord
    /\ exported = FALSE
    /\ _mount_point = MountPoint
    /\ mounts = {}
    /\ tasks = <<>>
    /\ factory_calls = 0

NextProfile ==
    \/ SetUrl(AllUrls)
    \/ ProcessKickstart
    \/ SetupKickstart

\* the configuration and the kickstart mapping over every short string
SpecProfile == InitProfile /\ [][NextProfile]_vars

----------------------------------------------------------------------------
(* What is observed of a step *)

\* this step is an invocation of set_url
SetUrlCalled == set_calls' = set_calls + 1

\* in this step task i, running, ran to its end (it was not cancelled)
RanToEnd(i) ==
    /\ tasks[i].status = "running"
    /\ tasks'[i].status = "done"
    /\ tasks'[i].outcome # "cancelled"

InFlight == {i \in 1..Len(tasks) : tasks[i].status = "running"}

SameAddress(r, q) ==
    /\ r.server = q.server
    /\ r.dir = q.dir
    /\ r.opts = q.opts

----------------------------------------------------------------------------
(* Claims *)

\* C1: in every reachable state get_state() is READY if and only if the
\* mount point given at construction is mounted, and UNAVAILABLE otherwise.
C1_StateIsTheProbe ==
    /\ get_state \in {"READY", "UNAVAILABLE"}
    /\ get_state = "READY" <=> MountPoint \in mounts

\* C1 witness: a set-up task succeeded, a tear-down task succeeded, the URL
\* was set, and nothing is mounted at the mount point.
C1_Witness ==
    /\ \E i, j \in 1..Len(tasks) :
          /\ tasks[i].kind = "SetUpNFSSourceTask"
          /\ tasks[i].outcome = "success"
          /\ tasks[j].kind = "TearDownMountTask"
          /\ tasks[j].outcome = "success"
    /\ set_calls > 0
    /\ get_state = "UNAVAILABLE"

\* C2: the number of emissions of url_changed equals the number of set_url
\* invocations made, every one of which succeeds.
C2_OneSignalPerSetUrl == url_changed = set_calls

\* C2 witness: set_url ran twice, once of them through process_kickstart.
C2_Witness ==
    /\ set_calls >= 2
    /\ url_changed >= 2
    /\ imported # NoRecord

C4_ImportWithoutServerFails ==
    [][(ProcessKickstart /\ data.server = <<>>)
          => /\ raised' = InvalidConfigurationError
             /\ _url' = _url
             /\ url_changed' = url_changed]_vars

\* C4 witness: an import of a record without server has just failed while
\* a well-formed URL was stored.
C4_Witness ==
    /\ raised = InvalidConfigurationError
    /\ data.server = <<>>
    /\ WellFormed(_url)

\* C5 as claimed: exporting after an import gives back the imported record,
\* server, directory, options and the seen marker alike.
C5_Original ==
    [][(SetupKickstart /\ imported # NoRecord)
          => /\ SameAddress(data', imported)
             /\ data'.seen = imported.seen]_vars

\* C5 as amended: exporting after an import gives back the imported server,
\* directory and options, and the seen marker is true whatever it was in
\* the imported record.
C5_ExportAfterImport ==
    [][(SetupKickstart /\ imported # NoRecord)
          => /\ raised' = NoError
             /\ SameAddress(data', imported)
             /\ data'.seen = TRUE]_vars

\* C5 witness: a record that was not marked seen was imported and exported.
C5_Witness ==
    /\ exported
    /\ imported # NoRecord
    /\ ~imported.seen
    /\ imported.dir # <<>>
    /\ imported.opts # <<>>
    /\ data.seen

\* C6: importing the export of a well-formed URL stores the same URL again,
\* and exporting after an import gives each of server, directory and
\* options back in its own field.
C6_AddressRoundTrip ==
    [][/\ (ProcessKickstart /\ exported)
              => (raised' = NoError /\ _url' = _url)
       /\ (SetupKickstart /\ imported # NoRecord)
              => SameAddress(data', imported)
       /\ (SetupKickstart /\ WellFormed(_url))
              => create_nfs_url(data'.server, data'.dir, data'.opts) = Ok(_url)]_vars

\* C6 witness: a well-formed URL given to set_url was exported and imported
\* again, its directory differing from its server and from its options.
C6_Witness ==
    /\ exported
    /\ imported = data
    /\ set_calls >= 2
    /\ WellFormed(_url)
    /\ data.server # data.dir
    /\ data.dir # data.opts

\* C7 as claimed: at most one task of the source is running at any time.
C7_Original == Cardinality(InFlight) <= 1

\* C7 as amended: every set_up_with_tasks / tear_down_with_tasks call hands
\* out exactly one task, so no more tasks are running than calls were made;
\* the module itself does not keep two of them from running together.
C7_OneTaskPerCall ==
    /\ Len(tasks) = factory_calls
    /\ Cardinality(InFlight) <= factory_calls

\* C7 witness: a set-up task and a tear-down task are running together.
C7_Witness ==
    \E i, j \in InFlight :
        /\ tasks[i].origin = "set_up_with_tasks"
        /\ tasks[j].origin = "tear_down_with_tasks"

\* C8: a task of tear_down_with_tasks that runs to its end while nothing is
\* mounted at the mount point succeeds, changes no mount, no configuration
\* and emits nothing, and get_state() is UNAVAILABLE after it.
C8_TearDownOfNothing ==
    [][\A i \in 1..Len(tasks) :
          (/\ tasks[i].origin = "tear_down_with_tasks"
           /\ RanToEnd(i)
           /\ MountPoint \notin mounts)
              => /\ tasks'[i].outcome = "success"
                 /\ mounts' = mounts
                 /\ get_state' = "UNAVAILABLE"
                 /\ UNCHANGED config_vars]_vars

\* C8 witness: two tear-down tasks succeeded on a source no set-up task was
\* ever created for, and nothing is mounted.
C8_Witness ==
    /\ Len(tasks) >= 2
    /\ \A i \in 1..Len(tasks) :
          /\ tasks[i].origin = "tear_down_with_tasks"
          /\ tasks[i].outcome = "success"
    /\ mounts = {}

\* C9: when a task of set_up_with_tasks ends in success get_state() is
\* READY, and when a task of tear_down_with_tasks ends in success
\* get_state() is UNAVAILABLE.
C9_SetUpThenTearDown ==
    [][\A i \in 1..Len(tasks) :
          (RanToEnd(i) /\ tasks'[i].outcome = "success")
              => /\ tasks[i].origin = "set_up_with_tasks"
                        => get_state' = "READY"
                 /\ tasks[i].origin = "tear_down_with_tasks"
                        => get_state' = "UNAVAILABLE"]_vars

\* C9 witness: the first task, a set-up of a well-formed URL, succeeded and
\* the second, a tear-down, succeeded, and the state is UNAVAILABLE again.
C9_Witness ==
    /\ Len(tasks) >= 2
    /\ tasks[1].origin = "set_up_with_tasks"
    /\ WellFormed(tasks[1].url)
    /\ tasks[1].outcome = "success"
    /\ tasks[2].origin = "tear_down_with_tasks"
    /\ tasks[2].outcome = "success"
    /\ get_state = "UNAVAILABLE"

\* C10: when a task of set_up_with_tasks ends in MountFailure while the
\* state is UNAVAILABLE, the state stays UNAVAILABLE, the URL is not
\* changed, the description is still built from it and no signal is emitted.
C10_FailedSetUpChangesNothing ==
    [][\A i \in 1..Len(tasks) :
          (/\ tasks[i].origin = "set_up_with_tasks"
           /\ RanToEnd(i)
           /\ tasks'[i].outcome = "MountFailure"
           /\ MountPoint \notin mounts)
              => /\ get_state' = "UNAVAILABLE"
                 /\ _url' = _url
                 /\ description' = DescriptionPrefix \o _url
                 /\ url_changed' = url_changed]_vars

\* C10 witness: a set-up task of the stored, well-formed URL ended in
\* MountFailure and the state is UNAVAILABLE.
C10_Witness ==
    /\ \E i \in 1..Len(tasks) :
          /\ tasks[i].origin = "set_up_with_tasks"
          /\ tasks[i].outcome = "MountFailure"
          /\ tasks[i].url = _url
    /\ WellFormed(_url)
    /\ get_state = "UNAVAILABLE"

\* the source as constructed: no URL set yet, no task started, and nothing
\* mounted at the mount point
Fresh ==
    /\ set_calls = 0
    /\ \A i \in 1..Len(tasks) : tasks[i].status = "created"
    /\ mounts = {}

\* this step is a call of set_up_with_tasks or tear_down_with_tasks
FactoryCalled == factory_calls' = factory_calls + 1

\* C11: as long as no URL was set, no task was started and nothing is
\* mounted at the mount point, get_state() is UNAVAILABLE, the URL is empty
\* and the description is the label of the empty URL; in every reachable
\* state the type is NFS and the network is required.
C11_FreshSource ==
    /\ type = "NFS"
    /\ network_required = TRUE
    /\ Fresh => /\ get_state = "UNAVAILABLE"
                /\ url = <<>>
                /\ description = DescriptionPrefix

\* C11 witness: nothing was set or started, though a task was asked for and
\* an export of the empty URL was tried.
C11_Witness ==
    /\ Fresh
    /\ Len(tasks) >= 1
    /\ raised = InvalidConfigurationError
    /\ url_changed = 0

\* C12: a call of set_up_with_tasks or tear_down_with_tasks leaves the URL,
\* the signal count and get_state() as they were, leaves every earlier task
\* as it was and adds exactly one task, newly created.
C12_FactoryCallsOnlyCreate ==
    [][FactoryCalled
          => /\ UNCHANGED <<_url, url_changed, set_calls, data, mounts>>
             /\ get_state' = get_state
             /\ Len(tasks') = Len(tasks) + 1
             /\ SubSeq(tasks', 1, Len(tasks)) = tasks
             /\ tasks'[Len(tasks')].status = "created"]_vars

\* C12 witness: a second task was created, and not yet started, on a source
\* whose URL is set and which is READY after its first task.
C12_Witness ==
    /\ Len(tasks) >= 2
    /\ tasks[1].status = "done"
    /\ tasks[2].status = "created"
    /\ set_calls >= 1
    /\ get_state = "READY"

\* C13: the task of set_up_with_tasks carries the URL stored at the call;
\* no later step changes the URL or the target a task carries, and a
\* set-up task succeeds only on the URL it carries.
C13_TaskKeepsItsUrl ==
    [][/\ \A i \in 1..Len(tasks) :
              /\ tasks'[i].url = tasks[i].url
              /\ tasks'[i].target = tasks[i].target
              /\ (/\ tasks[i].origin = "set_up_with_tasks"
                  /\ RanToEnd(i)
                  /\ tasks'[i].outcome = "success")
                     => WellFormed(tasks[i].url)
       /\ (/\ FactoryCalled
           /\ tasks'[Len(tasks')].origin = "set_up_with_tasks")
              => tasks'[Len(tasks')].url = _url]_vars

\* C13 witness: the first set-up task succeeded on a URL that is no longer
\* the stored one, and a later set-up task carries the stored URL.
C13_Witness ==
    /\ Len(tasks) >= 2
    /\ tasks[1].origin = "set_up_with_tasks"
    /\ tasks[1].outcome = "success"
    /\ tasks[1].url # _url
    /\ tasks[2].origin = "set_up_with_tasks"
    /\ tasks[2].url = _url

\* C14: in the step of a set_url invocation the signal is emitted, and the
\* URL its handlers read is the value the invocation was given, which is
\* the URL stored when the invocation returns.
C14_HandlersSeeTheNewUrl ==
    [][SetUrlCalled
          => /\ url_changed' = url_changed + 1
             /\ observed' = last_arg'
             /\ observed' = _url']_vars

\* C14 witness: set_url ran a second time and its handlers read the value
\* it was given.
C14_Witness ==
    /\ set_calls >= 2
    /\ url_changed = set_calls
    /\ observed = last_arg
    /\ observed # <<>>

\* C15 as claimed: a set_url invocation given the value that is stored
\* already emits nothing.
C15_Original ==
    [][(SetUrlCalled /\ last_arg' = _url)
          => url_changed' = url_changed]_vars

\* C15 as amended: a set_url invocation given the value that is stored
\* already leaves the URL as it is and emits url_changed once, as any other
\* invocation does.
C15_NoOpSetStillEmits ==
    [][(SetUrlCalled /\ last_arg' = _url)
          => /\ _url' = _url
             /\ url_changed' = url_changed + 1
             /\ raised' = NoError]_vars

\* C15 witness: the one invocation so far gave the empty URL to a source
\* whose URL was empty, and the signal was emitted.
C15_Witness ==
    /\ set_calls = 1
    /\ last_arg = <<>>
    /\ _url = <<>>
    /\ url_changed = 1

\* C16: the stored URL is the value of the last set_url invocation, the empty
\* one if there was none; after an import it is the composition of the
\* imported record; and the description is the label of that same value.
C16_LastWriteWins ==
    /\ _url = last_arg
    /\ set_calls = 0 => _url = <<>>
    /\ imported # NoRecord
          => Ok(_url) = create_nfs_url(imported.server, imported.dir, imported.opts)
    /\ description = DescriptionPrefix \o last_arg

\* C16 witness: a URL was set and then replaced by an import.
C16_Witness ==
    /\ set_calls >= 2
    /\ imported # NoRecord
    /\ ~exported
    /\ _url = last_arg

\* C17: the mount point is the one given at construction in every reachable
\* state; every task handed out targets it, the repository configuration is
\* generated from it and get_state() probes it.
C17_OneMountPoint ==
    /\ _mount_point = MountPoint
    /\ \A i \in 1..Len(tasks) : tasks[i].target = MountPoint
    /\ generate_repo_configuration = from_directory(MountPoint)
    /\ get_state = from_bool(MountPoint \in mounts)

\* C17 witness: a tear-down task and a set-up task were handed out, the
\* set-up task succeeded and the source is READY.
C17_Witness ==
    /\ Len(tasks) >= 2
    /\ tasks[1].origin = "tear_down_with_tasks"
    /\ tasks[2].origin = "set_up_with_tasks"
    /\ tasks[2].outcome = "success"
    /\ get_state = "READY"

\* C18: setup_kickstart leaves the other fields of the record, the URL, the
\* signal count and get_state() as they were, and marks the record seen
\* when it raises nothing; process_kickstart leaves the record as it was and
\* invokes set_url once, emitting once, unless it raises, and then not at all.
C18_KickstartFrame ==
    [][/\ SetupKickstart
              => /\ data'.lineno = data.lineno
                 /\ raised' = NoError => data'.seen
                 /\ raised' # NoError => data' = data
                 /\ UNCHANGED <<_url, url_changed, set_calls, mounts>>
                 /\ get_state' = get_state
       /\ ProcessKickstart
              => /\ data' = data
                 /\ get_state' = get_state
                 /\ IF raised' = NoError
                    THEN /\ set_calls' = set_calls + 1
                         /\ url_changed' = url_changed + 1
                    ELSE UNCHANGED <<set_calls, url_changed, _url>>]_vars

\* C18 witness: a URL given to set_url was exported into a record that was
\* not marked seen and whose line number is not the default.
C18_Witness ==
    /\ exported
    /\ imported = NoRecord
    /\ set_calls >= 1
    /\ data.lineno = 1
    /\ data.seen

\* C19: no set_url, process_kickstart or setup_kickstart step changes
\* get_state(); a step that changes it is the end or the cancellation of a
\* running task, or a mount or unmount by somebody else.
C19_ConfigurationKeepsState ==
    [][/\ (SetUrlCalled \/ ProcessKickstart \/ SetupKickstart)
              => get_state' = get_state
       /\ get_state' # get_state
              => /\ mounts' # mounts
                 /\ \/ ExternalMountChange
                    \/ \E i \in 1..Len(tasks) :
                          /\ tasks[i].status = "running"
                          /\ tasks'[i].status = "done"]_vars

\* C19 witness: the URL was replaced after a set-up task had mounted another
\* one, and the source is still READY.
C19_Witness ==
    /\ get_state = "READY"
    /\ set_calls >= 2
    /\ \E i \in 1..Len(tasks) :
          /\ tasks[i].origin = "set_up_with_tasks"
          /\ tasks[i].outcome = "success"
          /\ tasks[i].url # _url

====
